---- MODULE Spec2Model ----
(***************************************************************************)
(* A model of the content-ingestion jobs of f_cross_social_media:          *)
(*   scripts/goodreads_scraper.py, scripts/pull_zenquotes.py,              *)
(*   scripts/pinterest_scraper.py, scripts/tiny_buddha_scraper.py.         *)
(*                                                                         *)
(* Text is a sequence of characters; a character is a one-token string.    *)
(* Non-ASCII glyphs of the source are written as their code point, e.g.    *)
(* "U+2015" is the horizontal bar the Goodreads page puts before the       *)
(* author.  A digest (sha1, sha256) is modelled as its pre-image: the      *)
(* model assumes the digests collision-free.                               *)
(***************************************************************************)
EXTENDS Integers, Sequences, FiniteSets, TLC

VARIABLES
    call,        \* function harness: the function called and its arguments
    ret,         \* function harness: the value last returned ("pending" before)
    prev,        \* function harness: the value returned before that
    depth        \* function harness: how many times the function was applied

pureVars == <<call, ret, prev, depth>>

VARIABLES
    gpc,           \* Goodreads main: where the run is
    genv,          \* Goodreads: is sa.json there, is GSPREAD_SHEET_ID set
    tag_i,         \* Goodreads main: index of the current tag in TAGS
    page,          \* Goodreads main: the current page
    new_quotes,    \* Goodreads main: what dedupe returned for the current page
    existing_keys, \* Goodreads main: the known dedupe keys
    ws,            \* Goodreads: the data rows of the worksheet
    base,          \* Goodreads: how many rows the worksheet held when the run began
    fetchLog,      \* Goodreads: the (tag, page) of every fetch_page call so far
    pause          \* Goodreads: seconds slept since the last fetch_page call

grVars == <<gpc, genv, tag_i, page, new_quotes, existing_keys, ws, base,
            fetchLog, pause>>

VARIABLES
    zpc,        \* ZenQuotes main: where the run is
    zenv,       \* ZenQuotes: is GSPREAD_SHEET_ID set, is GOOGLE_SA_JSON set
    zapi,       \* ZenQuotes: what the API answers (the source data)
    batch,      \* ZenQuotes main: the fetched batch
    rows,       \* ZenQuotes main: the rows of this run
    csv,        \* ZenQuotes: the data rows of the monthly CSV file
    zsheet,     \* ZenQuotes: the data rows of the worksheet
    zrun,       \* ZenQuotes: 1 in the first run of the job, 2 in the second, ...
    zfetches,   \* ZenQuotes: how many times this run called fetch_quotes
    zclean      \* ZenQuotes: no fetch and no append has failed so far

zenVars == <<zpc, zenv, zapi, batch, rows, csv, zsheet, zrun, zfetches, zclean>>

VARIABLES
    tpc,           \* Tiny Buddha script: where the run is
    tenv,          \* Tiny Buddha: is GOOGLE_SA_JSON set, is GSPREAD_SHEET_ID set
    tsource,       \* Tiny Buddha: the entries the feed serves (the source data)
    entries,       \* Tiny Buddha script: feed.entries
    ti,            \* Tiny Buddha script: index of the entry the loop is at
    existing_urls, \* Tiny Buddha script: the known urls
    tnew_rows,     \* Tiny Buddha script: new_rows
    tsheet,        \* Tiny Buddha: the rows of the worksheet, row 1 included
    trun,          \* Tiny Buddha: 1 in the first run of the job, 2 in the second
    tparses,       \* Tiny Buddha: how many times this run parsed the feed
    tclean         \* Tiny Buddha: no run has raised so far

tbVars == <<tpc, tenv, tsource, entries, ti, existing_urls, tnew_rows, tsheet,
            trun, tparses, tclean>>

VARIABLES
    ppc,        \* Pinterest script: where the run is
    penv,       \* Pinterest: is GOOGLE_SA_JSON set, is GSPREAD_SHEET_ID set
    psource,    \* Pinterest: the entries each board's feed serves (the source data)
    pboard,     \* Pinterest: index of the current board in BOARD_FEEDS
    pentries,   \* Pinterest: feed.entries of the current board
    pi,         \* Pinterest: index of the entry the loop is at
    pnew_rows,  \* Pinterest: new_rows
    psheet,     \* Pinterest: the data rows of the worksheet
    prun,       \* Pinterest: 1 in the first run of the job, 2 in the second
    pparses,    \* Pinterest: how many times this run parsed a feed
    pclean      \* Pinterest: no run has raised and no feed has failed so far

pinVars == <<ppc, penv, psource, pboard, pentries, pi, pnew_rows, psheet, prun,
             pparses, pclean>>

vars == <<pureVars, grVars, zenVars, tbVars, pinVars>>

(***************************************************************************)
(* Characters and strings                                                  *)
(***************************************************************************)

\* Python's whitespace: what str.strip(), str.split() and the regex \s match.
WS == {" ", "\n", "\t"}

\* goodreads_scraper.py:71, the argument of str.strip: curly and straight
\* double quotes, the apostrophe and the space.
GOODREADS_STRIP == {"U+201C", "U+201D", "\"", "'", " "}

\* pull_zenquotes.py:25-26, the character class of both regexes.
ZEN_EDGE == WS \cup {"\"", "U+201C", "U+201D", "'", "U+2018", "U+2019",
                     "-", "U+2013", "U+2014"}

\* The attribution separator of goodreads_scraper.py:70.
HBAR == "U+2015"

Rep(c, n) == [i \in 1..n |-> c]

\* str.lower(), on the letters the model uses.
LowerChar(c) ==
    CASE c = "A" -> "a"
      [] c = "B" -> "b"
      [] c = "U" -> "u"
      [] c = "X" -> "x"
      [] OTHER   -> c

Lower(s) == [i \in 1..Len(s) |-> LowerChar(s[i])]

\* str.lstrip(chars)
LStrip(s, chars) ==
    IF \A i \in 1..Len(s) : s[i] \in chars
    THEN <<>>
    ELSE LET first == CHOOSE i \in 1..Len(s) :
                          /\ s[i] \notin chars
                          /\ \A j \in 1..(i - 1) : s[j] \in chars
         IN  SubSeq(s, first, Len(s))

\* str.rstrip(chars)
RStrip(s, chars) ==
    IF \A i \in 1..Len(s) : s[i] \in chars
    THEN <<>>
    ELSE LET last == CHOOSE i \in 1..Len(s) :
                         /\ s[i] \notin chars
                         /\ \A j \in (i + 1)..Len(s) : s[j] \in chars
         IN  SubSeq(s, 1, last)

\* str.strip(chars)
StripChars(s, chars) == RStrip(LStrip(s, chars), chars)

\* str.strip()
Strip(s) == StripChars(s, WS)

\* re.sub(r'\s+', ' ', s): every maximal run of whitespace becomes one space.
CollapseRuns(s) ==
    LET idx  == [i \in 1..Len(s) |-> i]
        keep == SelectSeq(idx, LAMBDA i : \/ s[i] \notin WS
                                          \/ i = 1
                                          \/ s[i - 1] \notin WS)
    IN  [k \in 1..Len(keep) |-> IF s[keep[k]] \in WS THEN " " ELSE s[keep[k]]]

\* " ".join(s.split()): the whitespace-separated words joined by one space.
JoinSplit(s) == CollapseRuns(Strip(s))

\* str.replace("\n", " ")
ReplaceNewlines(s) == [i \in 1..Len(s) |-> IF s[i] = "\n" THEN " " ELSE s[i]]

\* str.endswith("...")
EndsWithEllipsis(s) ==
    /\ Len(s) >= 3
    /\ s[Len(s)] = "." /\ s[Len(s) - 1] = "." /\ s[Len(s) - 2] = "."

\* s.split(sep)[0]: the text before the first sep (all of s when there is none).
BeforeFirst(s, sep) ==
    IF \A i \in 1..Len(s) : s[i] # sep
    THEN s
    ELSE LET p == CHOOSE i \in 1..Len(s) :
                      s[i] = sep /\ \A j \in 1..(i - 1) : s[j] # sep
         IN  SubSeq(s, 1, p - 1)

\* The text after the first sep (only used when s holds one).
AfterFirst(s, sep) ==
    LET p == CHOOSE i \in 1..Len(s) :
                 s[i] = sep /\ \A j \in 1..(i - 1) : s[j] # sep
    IN  SubSeq(s, p + 1, Len(s))

(***************************************************************************)
(* pull_zenquotes.py: normalize_text                                       *)
(***************************************************************************)
normalize_text(q) ==
    LET q1 == Strip(q)
        q2 == LStrip(q1, ZEN_EDGE)
        q3 == RStrip(q2, ZEN_EDGE)
        q4 == CollapseRuns(q3)
    IN  Strip(q4)

(***************************************************************************)
(* goodreads_scraper.py: the quote cleanup of parse_quotes                 *)
(***************************************************************************)
\* Lines 71 and 75-78, applied to parts[0].
CleanQuote(p) ==
    LET q1 == ReplaceNewlines(StripChars(p, GOODREADS_STRIP))
        q2 == IF EndsWithEllipsis(q1)
              THEN Strip(SubSeq(q1, 1, Len(q1) - 3))
              ELSE q1
    IN  JoinSplit(q2)

\* Lines 69-88 for one div: full_text is the div's flattened text.  The result
\* is the sequence of records the div contributes (none or one).
MIN_LEN == 60
MAX_LEN == 250
BASE_URL == "https://www.goodreads.com/quotes/tag/"
UNKNOWN == <<"U", "n", "k", "n", "o", "w", "n">>

ParseDiv(full_text, tag) ==
    LET hasAuthor == \E i \in 1..Len(full_text) : full_text[i] = HBAR
        quote     == CleanQuote(BeforeFirst(full_text, HBAR))
        author    == IF hasAuthor
                     THEN Strip(BeforeFirst(
                              BeforeFirst(AfterFirst(full_text, HBAR), HBAR), ","))
                     ELSE UNKNOWN
    IN  IF ~(MIN_LEN <= Len(quote) /\ Len(quote) <= MAX_LEN)
        THEN <<>>
        ELSE << [tag        |-> tag,
                 quote      |-> quote,
                 author     |-> author,
                 url        |-> <<BASE_URL, tag>>,
                 char_count |-> Len(quote)] >>

\* parse_quotes: html is the sequence of the flattened texts of the page's
\* div.quoteText blocks, in document order.
RECURSIVE parse_quotes(_, _)
parse_quotes(html, tag) ==
    IF html = <<>>
    THEN <<>>
    ELSE ParseDiv(Head(html), tag) \o parse_quotes(Tail(html), tag)

\* compute_key: the digest's pre-image.
compute_key(quote, author) ==
    Lower(Strip(quote)) \o <<"|">> \o Lower(Strip(author))

WithKey(q) ==
    [tag        |-> q.tag,
     quote      |-> q.quote,
     author     |-> q.author,
     url        |-> q.url,
     char_count |-> q.char_count,
     dedupe_key |-> compute_key(q.quote, q.author)]

\* dedupe: the quotes whose key is not in existing_keys, each with its key.
RECURSIVE dedupe(_, _)
dedupe(quotes, keys) ==
    IF quotes = <<>>
    THEN <<>>
    ELSE LET q   == Head(quotes)
             key == compute_key(q.quote, q.author)
         IN  (IF key \notin keys THEN <<WithKey(q)>> ELSE <<>>)
             \o dedupe(Tail(quotes), keys)

(***************************************************************************)
(* pull_zenquotes.py: make_hash, light_filter, to_sheet_row and the        *)
(* normalize / filter / dedupe pipeline of main                            *)
(*                                                                         *)
(* An API item is [q, a, c]: the quote, the author and the length hint.    *)
(* c is <<n>> when int(c_raw) gives n and <<>> when int(c_raw) raises (the *)
(* field is missing or is no number).                                      *)
(***************************************************************************)
ZEN_MIN == 60
ZEN_MAX == 220

\* make_hash: the digest's pre-image.
make_hash(quote, author) ==
    Lower(normalize_text(quote)) \o <<"|", "|">> \o Lower(author)

light_filter(item) ==
    LET c == IF item.c # <<>> THEN item.c[1] ELSE Len(item.q)
    IN  ZEN_MIN <= c /\ c <= ZEN_MAX

\* to_sheet_row: the columns that depend on the item (Quote, Author); the
\* others are constants or the wall clock.
to_sheet_row(item) ==
    [source |-> "ZenQuotes API",
     quote  |-> normalize_text(item.q),
     author |-> Strip(item.a),
     status |-> "Needs Review"]

\* main, lines 111-117: normalise each item, keep the non-empty ones that
\* pass light_filter.
RECURSIVE ZenFiltered(_)
ZenFiltered(items) ==
    IF items = <<>>
    THEN <<>>
    ELSE LET it == [q |-> normalize_text(Head(items).q),
                    a |-> Strip(Head(items).a),
                    c |-> Head(items).c]
         IN  (IF it.q # <<>> /\ light_filter(it) THEN <<it>> ELSE <<>>)
             \o ZenFiltered(Tail(items))

\* main, lines 120-126: first occurrence of each hash, in order.
RECURSIVE ZenDeduped(_, _)
ZenDeduped(filtered, seen) ==
    IF filtered = <<>>
    THEN <<>>
    ELSE LET it == Head(filtered)
             h  == make_hash(it.q, it.a)
         IN  IF h \notin seen
             THEN <<it>> \o ZenDeduped(Tail(filtered), seen \cup {h})
             ELSE ZenDeduped(Tail(filtered), seen)

\* main, lines 111-129: the rows of one batch.
ZenRows(items) ==
    LET deduped == ZenDeduped(ZenFiltered(items), {})
    IN  [i \in 1..Len(deduped) |-> to_sheet_row(deduped[i])]

(***************************************************************************)
(* The function harness: one call of one function on a bounded input.      *)
(***************************************************************************)
MaxLen == 4
MaxBatch == 3

Alphabet == {"a", " ", "\n", "\"", ".", "-"}

Strings == UNION {[1..n -> Alphabet] : n \in 0..MaxLen}

SeqsUpTo(S, n) == UNION {[1..k -> S] : k \in 0..n}

\* Already-parsed Goodreads quotes (dedupe does not look at the length).
GateQuote(quote, author) ==
    [tag |-> "confidence", quote |-> quote, author |-> author,
     url |-> <<BASE_URL, "confidence">>, char_count |-> Len(quote)]

GateQuotes == {GateQuote(<<"a">>, <<"x">>),
               GateQuote(<<"A">>, <<"X">>),
               GateQuote(<<"b">>, <<"x">>)}

GateKeys == {compute_key(q.quote, q.author) : q \in GateQuotes}

\* Flattened div texts around the length bounds of parse_quotes.
DivLens == {0, MIN_LEN - 1, MIN_LEN, MAX_LEN, MAX_LEN + 1}

DivTexts ==
    {pre \o Rep("a", n) \o suf \o att :
        pre \in {<<>>, <<"U+201C">>},
        n   \in DivLens,
        suf \in {<<>>, <<"U+201D", " ">>, <<".", ".", ".">>},
        att \in {<<>>, <<HBAR, " ", "X", ",", " ", "b">>}}

\* API items around the length bounds of light_filter.
ZenLens == {0, ZEN_MIN - 1, ZEN_MIN, ZEN_MAX, ZEN_MAX + 1}

ZenItems ==
    {[q |-> pre \o Rep("a", n), a |-> <<"x">>, c |-> c] :
        pre \in {<<>>, <<"-", " ">>},
        n   \in ZenLens,
        c   \in {<<>>} \cup {<<k>> : k \in ZenLens}}

Calls ==
    [fn : {"normalize_text", "CleanQuote"}, arg : Strings]
    \cup [fn : {"dedupe"}, new_quotes : SeqsUpTo(GateQuotes, MaxBatch),
                            existing_keys : SUBSET GateKeys]
    \cup [fn : {"parse_quotes"}, html : SeqsUpTo(DivTexts, 1)]
    \cup [fn : {"ZenRows"}, items : SeqsUpTo(ZenItems, 1)]

\* The Goodreads job is not running.
GrIdle ==
    /\ gpc = "idle"
    /\ genv = [creds |-> FALSE, sheet_id |-> FALSE]
    /\ tag_i = 1
    /\ page = 1
    /\ new_quotes = <<>>
    /\ existing_keys = {}
    /\ ws = <<>>
    /\ base = 0
    /\ fetchLog = <<>>
    /\ pause = 0

\* The ZenQuotes job is not running.
ZenIdle ==
    /\ zpc = "idle"
    /\ zenv = [sheet_id |-> FALSE, sa_json |-> FALSE]
    /\ zapi = <<>>
    /\ batch = <<>>
    /\ rows = <<>>
    /\ csv = <<>>
    /\ zsheet = <<>>
    /\ zrun = 1
    /\ zfetches = 0
    /\ zclean = TRUE

\* The Tiny Buddha job is not running.
TbIdle ==
    /\ tpc = "idle"
    /\ tenv = [sa_json |-> FALSE, sheet_id |-> FALSE]
    /\ tsource = <<>>
    /\ entries = <<>>
    /\ ti = 1
    /\ existing_urls = {}
    /\ tnew_rows = <<>>
    /\ tsheet = <<>>
    /\ trun = 1
    /\ tparses = 0
    /\ tclean = TRUE

\* The Pinterest job is not running.
PinIdle ==
    /\ ppc = "idle"
    /\ penv = [sa_json |-> FALSE, sheet_id |-> FALSE]
    /\ psource = <<>>
    /\ pboard = 1
    /\ pentries = <<>>
    /\ pi = 1
    /\ pnew_rows = <<>>
    /\ psheet = <<>>
    /\ prun = 1
    /\ pparses = 0
    /\ pclean = TRUE

PureInit ==
    /\ GrIdle
    /\ ZenIdle
    /\ TbIdle
    /\ PinIdle
    /\ call \in Calls
    /\ ret = "pending"
    /\ prev = "pending"
    /\ depth = 0

\* normalize_text, applied to the input and then to its own output.
CallNormalizeText ==
    /\ call.fn = "normalize_text"
    /\ depth < 2
    /\ ret' = normalize_text(IF depth = 0 THEN call.arg ELSE ret)
    /\ prev' = ret
    /\ depth' = depth + 1
    /\ UNCHANGED call

\* The Goodreads cleanup, applied to the input and then to its own output.
CallCleanQuote ==
    /\ call.fn = "CleanQuote"
    /\ depth < 2
    /\ ret' = CleanQuote(IF depth = 0 THEN call.arg ELSE ret)
    /\ prev' = ret
    /\ depth' = depth + 1
    /\ UNCHANGED call

CallDedupe ==
    /\ call.fn = "dedupe"
    /\ depth = 0
    /\ ret' = dedupe(call.new_quotes, call.existing_keys)
    /\ prev' = ret
    /\ depth' = 1
    /\ UNCHANGED call

CallParseQuotes ==
    /\ call.fn = "parse_quotes"
    /\ depth = 0
    /\ ret' = parse_quotes(call.html, "confidence")
    /\ prev' = ret
    /\ depth' = 1
    /\ UNCHANGED call

CallZenRows ==
    /\ call.fn = "ZenRows"
    /\ depth = 0
    /\ ret' = ZenRows(call.items)
    /\ prev' = ret
    /\ depth' = 1
    /\ UNCHANGED call

PureNext ==
    \/ CallNormalizeText /\ UNCHANGED <<grVars, zenVars, tbVars, pinVars>>
    \/ CallCleanQuote /\ UNCHANGED <<grVars, zenVars, tbVars, pinVars>>
    \/ CallDedupe /\ UNCHANGED <<grVars, zenVars, tbVars, pinVars>>
    \/ CallParseQuotes /\ UNCHANGED <<grVars, zenVars, tbVars, pinVars>>
    \/ CallZenRows /\ UNCHANGED <<grVars, zenVars, tbVars, pinVars>>

SpecPure == PureInit /\ [][PureNext]_vars

\* The function harness is not in use.
PureIdle ==
    /\ call = "idle"
    /\ ret = "idle"
    /\ prev = "idle"
    /\ depth = 0

(***************************************************************************)
(* goodreads_scraper.py: main                                              *)
(*                                                                         *)
(* The worksheet is the sequence of its data rows (the header row is left  *)
(* out).  The counters tag_total and total_added are only printed and are  *)
(* left out.  A fetched page is the sequence of the flattened texts of its *)
(* quote blocks.                                                           *)
(***************************************************************************)
TAGS == <<"financial-independence", "confidence", "growth", "leadership",
          "self-care", "money-mindset", "empowerment">>
MAX_PAGES == 5
SLEEP_TIME == <<5, 8>>
SOURCE == "Goodreads"

\* How many of the tags of TAGS a modelled run goes through.
NumTags == 2
\* How many quote blocks a fetched page holds at most.
MaxDivs == 1
\* How many data rows the worksheet can hold: an append that would exceed it fails.
SheetCapacity == 3

RunTags == SubSeq(TAGS, 1, NumTags)

DivA == <<"U+201C">> \o Rep("a", MIN_LEN) \o <<"U+201D", " ", HBAR, " ", "X">>
DivB == <<"U+201C">> \o Rep("b", MIN_LEN) \o <<"U+201D", " ", HBAR, " ", "X">>
DivShort == Rep("a", MIN_LEN - 1) \o <<" ", HBAR, " ", "X">>

Pages == SeqsUpTo({DivA, DivB, DivShort}, MaxDivs)

\* The dedupe keys a run can meet.
RunKeys ==
    UNION {{q.dedupe_key : q \in
               {dedupe(parse_quotes(<<d>>, RunTags[1]), {})[i] :
                   i \in 1..Len(parse_quotes(<<d>>, RunTags[1]))}} :
           d \in {DivA, DivB, DivShort}}

\* Lines 154-155, dedupe(parse_quotes(html, tag), existing_keys), tabulated
\* over the pages, tags and key sets of the model (the equality makes TLC
\* build the table once instead of evaluating each entry at every use).
Deduped ==
    LET table == [html \in Pages, t \in 1..Len(RunTags), keys \in SUBSET RunKeys |->
                     dedupe(parse_quotes(html, RunTags[t]), keys)]
    IN  IF table = table THEN table ELSE table

\* write_to_sheets, lines 123-133: the row of one quote (without the timestamp).
SheetRow(q) ==
    [source     |-> SOURCE,
     tag        |-> q.tag,
     quote      |-> q.quote,
     author     |-> q.author,
     url        |-> q.url,
     char_count |-> q.char_count,
     dedupe_key |-> q.dedupe_key]

SheetRows(quotes) == [i \in 1..Len(quotes) |-> SheetRow(quotes[i])]

\* What an earlier run may have left in the worksheet.
InitialStores ==
    {<<>>, SheetRows(dedupe(parse_quotes(<<DivA>>, TAGS[1]), {}))}

\* The (tag, page) pairs of a run, in the order of the two loops.
AllPairs ==
    [k \in 1..(Len(RunTags) * MAX_PAGES) |->
        <<RunTags[((k - 1) \div MAX_PAGES) + 1], ((k - 1) % MAX_PAGES) + 1>>]

GrInit ==
    /\ PureIdle
    /\ ZenIdle
    /\ TbIdle
    /\ PinIdle
    /\ gpc = "start"
    /\ genv \in [creds : BOOLEAN, sheet_id : BOOLEAN]
    /\ tag_i = 1
    /\ page = 1
    /\ new_quotes = <<>>
    /\ existing_keys = {}
    /\ ws \in InitialStores
    /\ base = Len(ws)
    /\ fetchLog = <<>>
    /\ pause = 0

\* get_google_sheet (line 143): without sa.json or without a spreadsheet id the
\* call raises and main ends there.
GetGoogleSheet ==
    /\ gpc = "start"
    /\ gpc' = IF genv.creds /\ genv.sheet_id THEN "keys" ELSE "crashed"
    /\ UNCHANGED <<genv, tag_i, page, new_quotes, existing_keys, ws, base,
                   fetchLog, pause>>

\* get_existing_keys (line 144): column 8 of the data rows, or the empty set
\* when reading the column raises.
GetExistingKeys ==
    /\ gpc = "keys"
    /\ \/ existing_keys' = {ws[i].dedupe_key : i \in 1..Len(ws)}
       \/ existing_keys' = {}
    /\ gpc' = "fetch"
    /\ UNCHANGED <<genv, tag_i, page, new_quotes, ws, base, fetchLog, pause>>

\* The loop headers of lines 147 and 150: the next page, the next tag, or the
\* end of the run.
Advance ==
    IF page < MAX_PAGES
    THEN /\ page' = page + 1
         /\ gpc' = "fetch"
         /\ UNCHANGED tag_i
    ELSE IF tag_i < Len(RunTags)
    THEN /\ page' = 1
         /\ tag_i' = tag_i + 1
         /\ gpc' = "fetch"
    ELSE /\ gpc' = "done"
         /\ UNCHANGED <<tag_i, page>>

\* Lines 153-156: the page is fetched, parsed and deduplicated.
FetchPageOk ==
    /\ gpc = "fetch"
    /\ fetchLog' = Append(fetchLog, <<RunTags[tag_i], page>>)
    /\ pause' = 0
    /\ new_quotes' \in {Deduped[html, tag_i, existing_keys] : html \in Pages}
    /\ gpc' = IF new_quotes' # <<>> THEN "write" ELSE "sleep"
    /\ UNCHANGED <<genv, tag_i, page, existing_keys, ws, base>>

\* FetchPageFail without the try/except of lines 152-163: the exception ends
\* the loops.
FetchPageFailAborts ==
    /\ gpc = "fetch"
    /\ fetchLog' = Append(fetchLog, <<RunTags[tag_i], page>>)
    /\ pause' = 0
    /\ gpc' = "done"
    /\ UNCHANGED <<genv, tag_i, page, new_quotes, existing_keys, ws, base>>

\* Line 153 raises: lines 161-163 print the error and go on to the next page.
FetchPageFail ==
    /\ gpc = "fetch"
    /\ fetchLog' = Append(fetchLog, <<RunTags[tag_i], page>>)
    /\ pause' = 0
    /\ Advance
    /\ UNCHANGED <<genv, new_quotes, existing_keys, ws, base>>

\* Lines 157-159: append_rows succeeds, and the keys join existing_keys.
WriteOk ==
    /\ gpc = "write"
    /\ Len(ws) + Len(new_quotes) <= SheetCapacity
    /\ ws' = ws \o SheetRows(new_quotes)
    /\ existing_keys' = existing_keys \cup
           {new_quotes[i].dedupe_key : i \in 1..Len(new_quotes)}
    /\ gpc' = "sleep"
    /\ UNCHANGED <<genv, tag_i, page, new_quotes, base, fetchLog, pause>>

\* Line 157 raises after the store applied the first k rows of the batch
\* (none, some or all of them): lines 161-163 go on to the next page.
WriteFail ==
    /\ gpc = "write"
    /\ \E k \in 0..Len(new_quotes) :
          /\ Len(ws) + k <= SheetCapacity
          /\ ws' = ws \o SubSeq(SheetRows(new_quotes), 1, k)
    /\ Advance
    /\ UNCHANGED <<genv, new_quotes, existing_keys, base, fetchLog, pause>>

\* Line 160: the polite delay, then the next page.
Sleep ==
    /\ gpc = "sleep"
    /\ pause' = pause + SLEEP_TIME[1]
    /\ Advance
    /\ UNCHANGED <<genv, new_quotes, existing_keys, ws, base, fetchLog>>

GrNext ==
    \/ GetGoogleSheet /\ UNCHANGED <<pureVars, zenVars, tbVars, pinVars>>
    \/ GetExistingKeys /\ UNCHANGED <<pureVars, zenVars, tbVars, pinVars>>
    \/ FetchPageOk /\ UNCHANGED <<pureVars, zenVars, tbVars, pinVars>>
    \/ FetchPageFail /\ UNCHANGED <<pureVars, zenVars, tbVars, pinVars>>
    \/ WriteOk /\ UNCHANGED <<pureVars, zenVars, tbVars, pinVars>>
    \/ WriteFail /\ UNCHANGED <<pureVars, zenVars, tbVars, pinVars>>
    \/ Sleep /\ UNCHANGED <<pureVars, zenVars, tbVars, pinVars>>

SpecGoodreads == GrInit /\ [][GrNext]_vars

\* The run is sequential and every call returns or raises: a step that can be
\* taken is taken.
SpecGoodreadsFair == SpecGoodreads /\ WF_vars(GrNext)

(***************************************************************************)
(* pull_zenquotes.py: main, run by the scheduler again and again           *)
(***************************************************************************)
\* How many times the scheduler runs a job.
MaxRuns == 2
\* How many items the API answers at most.
MaxItems == 2

ZenRunItems ==
    {[q |-> pre \o Rep("a", n), a |-> <<"x">>, c |-> c] :
        pre \in {<<>>, <<"-", " ">>},
        n   \in {ZEN_MIN - 1, ZEN_MIN},
        c   \in {<<>>, <<ZEN_MIN - 1>>, <<ZEN_MIN>>}}

ZenInit ==
    /\ PureIdle
    /\ GrIdle
    /\ TbIdle
    /\ PinIdle
    /\ zpc = "fetch"
    /\ zenv \in [sheet_id : BOOLEAN, sa_json : BOOLEAN]
    /\ zapi \in SeqsUpTo(ZenRunItems, MaxItems)
    /\ batch = <<>>
    /\ rows = <<>>
    /\ csv = <<>>
    /\ zsheet = <<>>
    /\ zrun = 1
    /\ zfetches = 0
    /\ zclean = TRUE

\* Lines 104-105: fetch_quotes returns the API's list.
ZenFetchOk ==
    /\ zpc = "fetch"
    /\ batch' = zapi
    /\ zfetches' = zfetches + 1
    /\ zpc' = "process"
    /\ UNCHANGED <<zenv, zapi, rows, csv, zsheet, zrun, zclean>>

\* Lines 106-108: fetch_quotes raises, the batch is empty.
ZenFetchFail ==
    /\ zpc = "fetch"
    /\ batch' = <<>>
    /\ zfetches' = zfetches + 1
    /\ zclean' = FALSE
    /\ zpc' = "process"
    /\ UNCHANGED <<zenv, zapi, rows, csv, zsheet, zrun>>

\* Lines 111-133: normalise, filter, deduplicate, project, write the CSV.
ZenProcess ==
    /\ zpc = "process"
    /\ rows' = ZenRows(batch)
    /\ csv' = csv \o rows'
    /\ zpc' = "append"
    /\ UNCHANGED <<zenv, zapi, batch, zsheet, zrun, zfetches, zclean>>

\* Line 136.
UseSheets == zenv.sheet_id /\ zenv.sa_json

\* Lines 137-139: append_to_sheet succeeds.
ZenAppendOk ==
    /\ zpc = "append"
    /\ UseSheets
    /\ zsheet' = zsheet \o rows
    /\ zpc' = "done"
    /\ UNCHANGED <<zenv, zapi, batch, rows, csv, zrun, zfetches, zclean>>

\* Lines 140-141: append_to_sheet raises after the store applied the first k
\* rows; main prints a warning.
ZenAppendFail ==
    /\ zpc = "append"
    /\ UseSheets
    /\ \E k \in 0..Len(rows) : zsheet' = zsheet \o SubSeq(rows, 1, k)
    /\ zclean' = FALSE
    /\ zpc' = "done"
    /\ UNCHANGED <<zenv, zapi, batch, rows, csv, zrun, zfetches>>

\* Lines 142-143: no sheet id or no credentials, the append is skipped.
ZenSkipAppend ==
    /\ zpc = "append"
    /\ ~UseSheets
    /\ zpc' = "done"
    /\ UNCHANGED <<zenv, zapi, batch, rows, csv, zsheet, zrun, zfetches, zclean>>

\* The scheduler starts the job again: a new process, the same files, the
\* same worksheet, the same source data.
ZenRerun ==
    /\ zpc = "done"
    /\ zrun < MaxRuns
    /\ zrun' = zrun + 1
    /\ batch' = <<>>
    /\ rows' = <<>>
    /\ zfetches' = 0
    /\ zpc' = "fetch"
    /\ UNCHANGED <<zenv, zapi, csv, zsheet, zclean>>

ZenNext ==
    \/ ZenFetchOk /\ UNCHANGED <<pureVars, grVars, tbVars, pinVars>>
    \/ ZenFetchFail /\ UNCHANGED <<pureVars, grVars, tbVars, pinVars>>
    \/ ZenProcess /\ UNCHANGED <<pureVars, grVars, tbVars, pinVars>>
    \/ ZenAppendOk /\ UNCHANGED <<pureVars, grVars, tbVars, pinVars>>
    \/ ZenAppendFail /\ UNCHANGED <<pureVars, grVars, tbVars, pinVars>>
    \/ ZenSkipAppend /\ UNCHANGED <<pureVars, grVars, tbVars, pinVars>>
    \/ ZenRerun /\ UNCHANGED <<pureVars, grVars, tbVars, pinVars>>

SpecZen == ZenInit /\ [][ZenNext]_vars

(***************************************************************************)
(* tiny_buddha_scraper.py                                                  *)
(*                                                                         *)
(* A feed entry is a record of optional fields: <<>> when the entry lacks  *)
(* the field, <<v>> when it holds v.  An HTML block is a sequence of       *)
(* tokens: tags ("<strong>", "</strong>", "<em>", "</em>"), entities and   *)
(* characters.                                                             *)
(***************************************************************************)
\* dict.get(key, default)
Get(field, default) == IF field = <<>> THEN default ELSE field[1]

OPEN_STRONG == {"<strong>", "<STRONG>"}
CLOSE_STRONG == {"</strong>", "</STRONG>"}
TAG_TOKENS == OPEN_STRONG \cup CLOSE_STRONG \cup {"<em>", "</em>"}

\* html.unescape, on the entities the model uses.
Unescape(text) == [i \in 1..Len(text) |-> IF text[i] = "&amp;" THEN "&" ELSE text[i]]

\* extract_first_strong: <<>> when there is no match (None), <<text>> otherwise.
extract_first_strong(html_block) ==
    LET n       == Len(html_block)
        matches == \E i \in 1..n : \E j \in (i + 1)..n :
                       html_block[i] \in OPEN_STRONG /\ html_block[j] \in CLOSE_STRONG
    IN  IF ~matches
        THEN <<>>
        ELSE LET i == CHOOSE i \in 1..n :
                          /\ html_block[i] \in OPEN_STRONG
                          /\ \A k \in 1..(i - 1) : html_block[k] \notin OPEN_STRONG
                 j == CHOOSE j \in (i + 1)..n :
                          /\ html_block[j] \in CLOSE_STRONG
                          /\ \A k \in (i + 1)..(j - 1) : html_block[k] \notin CLOSE_STRONG
                 group == SubSeq(html_block, i + 1, j - 1)
                 text  == SelectSeq(group, LAMBDA t : t \notin TAG_TOKENS)
             IN  <<Unescape(Strip(text))>>

\* Does the body of the loop (lines 46-57) raise on this entry?  entry.link
\* raises AttributeError without a link; [0] raises IndexError on an empty
\* content list (read only when the description is missing or empty).
TbRaises(entry) ==
    \/ entry.link = <<>>
    \/ /\ Get(entry.link, "") \notin existing_urls
       /\ Get(entry.description, <<>>) = <<>>
       /\ entry.content = << <<>> >>

\* Lines 50-57: the row of an entry on which the body does not raise.
TbRow(entry) ==
    LET raw_html == IF Get(entry.description, <<>>) # <<>>
                    THEN Get(entry.description, <<>>)
                    ELSE Get(Get(entry.content, <<[value |-> <<>>]>>)[1].value, <<>>)
        quote    == extract_first_strong(raw_html)
        title    == Get(entry.title, <<>>)
    IN  [date   |-> Get(entry.published, ""),
         source |-> "Tiny Buddha",
         text   |-> IF quote # <<>> /\ quote[1] # <<>> THEN quote[1] ELSE title,
         author |-> Get(entry.author, "Unknown"),
         url    |-> entry.link[1],
         status |-> "Needs Review"]

\* How many entries a feed serves at most.
MaxEntries == 2

TbHtml == << <<"<strong>", " ", "q", "&amp;", "<em>", "r", "</em>", "</strong>", "s">>,
            <<"p", "<strong>", "</strong>">>,
            <<"p", "</strong>", "<STRONG>">> >>

TbContent == <<[value |-> << <<"<strong>", "v", "</strong>">> >>]>>

TbEntry0(l, d, c) ==
    [link |-> l, description |-> d, content |-> c, title |-> << <<"t">> >>,
     author |-> <<"x">>, published |-> <<"Mon">>]

\* A good entry under each link, an empty <strong>, a quote held by content,
\* an empty content list (under a new and under a stored link), a missing
\* link, and an entry with nothing but a link and a description.
TbEntries ==
    {TbEntry0(<<"u1">>, <<TbHtml[1]>>, <<>>),
     TbEntry0(<<"u2">>, <<TbHtml[1]>>, <<>>),
     TbEntry0(<<"u2">>, <<TbHtml[2]>>, << <<>> >>),
     TbEntry0(<<"u2">>, <<>>, <<TbContent>>),
     TbEntry0(<<"u2">>, <<>>, << <<>> >>),
     TbEntry0(<<"u1">>, <<>>, << <<>> >>),
     TbEntry0(<<>>, <<TbHtml[1]>>, <<>>),
     [link |-> <<"u2">>, description |-> <<TbHtml[3]>>, content |-> <<>>,
      title |-> <<>>, author |-> <<>>, published |-> <<>>]}

\* A header row, as a person who prepares the tab types it (the script never
\* writes one), and the row an earlier run stored for url u1.
TbHeader ==
    [date |-> "Date", source |-> "Source", text |-> <<"Quote">>,
     author |-> "Author", url |-> "URL", status |-> "Status"]

TbStoredRow ==
    [date |-> "Mon", source |-> "Tiny Buddha", text |-> <<"t">>,
     author |-> "x", url |-> "u1", status |-> "Needs Review"]

\* The rows of the tab (get_all_values) when the first run starts: an empty
\* tab, a tab with a header, and what an earlier run left in either.
TbInitialStores ==
    {<<>>, <<TbHeader>>, <<TbStoredRow>>, <<TbHeader, TbStoredRow>>}

\* Line 31: column 5 of every row but the first (get_all_values()[1:]; each
\* row of the model has six columns, so len(row) > 4 holds).
TbExistingUrls(all_values) ==
    {all_values[i].url : i \in 2..Len(all_values)}

TbInit ==
    /\ PureIdle
    /\ GrIdle
    /\ ZenIdle
    /\ PinIdle
    /\ tpc = "start"
    /\ tenv \in [sa_json : BOOLEAN, sheet_id : BOOLEAN]
    /\ tsource \in SeqsUpTo(TbEntries, MaxEntries)
    /\ entries = <<>>
    /\ ti = 1
    /\ existing_urls = {}
    /\ tnew_rows = <<>>
    /\ tsheet \in TbInitialStores
    /\ trun = 1
    /\ tparses = 0
    /\ tclean = TRUE

\* TbAuth without the check of lines 19-20 and with a client that opens any
\* spreadsheet id.
TbAuthUnchecked ==
    /\ tpc = "start"
    /\ existing_urls' = TbExistingUrls(tsheet)
    /\ tpc' = "parse"
    /\ UNCHANGED <<tenv, tsource, entries, ti, tnew_rows, tsheet, trun, tparses,
                   tclean>>

\* Lines 18-31: without GOOGLE_SA_JSON line 20 raises; without a spreadsheet
\* id open_by_key raises; otherwise column 5 of the rows after row 1 is read.
TbAuth ==
    /\ tpc = "start"
    /\ IF tenv.sa_json /\ tenv.sheet_id
       THEN /\ existing_urls' = TbExistingUrls(tsheet)
            /\ tpc' = "parse"
            /\ UNCHANGED tclean
       ELSE /\ tpc' = "crashed"
            /\ tclean' = FALSE
            /\ UNCHANGED existing_urls
    /\ UNCHANGED <<tenv, tsource, entries, ti, tnew_rows, tsheet, trun, tparses>>

\* Line 34: feedparser.parse returns the feed's entries, or no entry when the
\* feed cannot be read (it does not raise).
TbParse ==
    /\ tpc = "parse"
    /\ \/ entries' = tsource /\ UNCHANGED tclean
       \/ entries' = <<>> /\ tclean' = FALSE
    /\ tparses' = tparses + 1
    /\ ti' = 1
    /\ tpc' = "loop"
    /\ UNCHANGED <<tenv, tsource, existing_urls, tnew_rows, tsheet, trun>>

\* Lines 45-57: one pass of the loop body.  An exception is not caught: the
\* script ends there, before line 59.
TbEntry ==
    /\ tpc = "loop"
    /\ ti <= Len(entries)
    /\ IF TbRaises(entries[ti])
       THEN /\ tpc' = "crashed"
            /\ tclean' = FALSE
            /\ UNCHANGED <<ti, tnew_rows>>
       ELSE /\ tnew_rows' = IF entries[ti].link[1] \in existing_urls
                            THEN tnew_rows
                            ELSE Append(tnew_rows, TbRow(entries[ti]))
            /\ ti' = ti + 1
            /\ UNCHANGED <<tpc, tclean>>
    /\ UNCHANGED <<tenv, tsource, entries, existing_urls, tsheet, trun, tparses>>

\* Lines 59-63, append_rows succeeds (or there is nothing to append).
TbAppendOk ==
    /\ tpc = "loop"
    /\ ti > Len(entries)
    /\ tsheet' = tsheet \o tnew_rows
    /\ tpc' = "done"
    /\ UNCHANGED <<tenv, tsource, entries, ti, existing_urls, tnew_rows, trun,
                   tparses, tclean>>

\* Line 60 raises after the store applied the first k rows.
TbAppendFail ==
    /\ tpc = "loop"
    /\ ti > Len(entries)
    /\ tnew_rows # <<>>
    /\ \E k \in 0..Len(tnew_rows) : tsheet' = tsheet \o SubSeq(tnew_rows, 1, k)
    /\ tclean' = FALSE
    /\ tpc' = "crashed"
    /\ UNCHANGED <<tenv, tsource, entries, ti, existing_urls, tnew_rows, trun,
                   tparses>>

\* The scheduler starts the job again: a new process, the same worksheet, the
\* same source data.
TbRerun ==
    /\ tpc \in {"done", "crashed"}
    /\ trun < MaxRuns
    /\ trun' = trun + 1
    /\ entries' = <<>>
    /\ ti' = 1
    /\ existing_urls' = {}
    /\ tnew_rows' = <<>>
    /\ tparses' = 0
    /\ tpc' = "start"
    /\ UNCHANGED <<tenv, tsource, tsheet, tclean>>

TbNext ==
    \/ TbAuth /\ UNCHANGED <<pureVars, grVars, zenVars, pinVars>>
    \/ TbParse /\ UNCHANGED <<pureVars, grVars, zenVars, pinVars>>
    \/ TbEntry /\ UNCHANGED <<pureVars, grVars, zenVars, pinVars>>
    \/ TbAppendOk /\ UNCHANGED <<pureVars, grVars, zenVars, pinVars>>
    \/ TbAppendFail /\ UNCHANGED <<pureVars, grVars, zenVars, pinVars>>
    \/ TbRerun /\ UNCHANGED <<pureVars, grVars, zenVars, pinVars>>

SpecTiny == TbInit /\ [][TbNext]_vars

(***************************************************************************)
(* pinterest_scraper.py                                                    *)
(***************************************************************************)
BOARD_FEEDS == <<"Motivation-Mondays", "Design-Inspirations">>

\* Does the body of the loop (lines 55-63) raise on this entry?  [0] raises
\* IndexError on an empty media_content list, read when the entry has no
\* enclosure.
PinRaises(entry) ==
    /\ ~(entry.enclosures # <<>> /\ Len(entry.enclosures[1]) > 0)
    /\ entry.media_content = << <<>> >>

\* Lines 55-63: the row of an entry on which the body does not raise.
PinRow(entry, board_name) ==
    LET img_url == IF entry.enclosures # <<>> /\ Len(entry.enclosures[1]) > 0
                   THEN Get(entry.enclosures[1][1].href, "")
                   ELSE IF entry.media_content # <<>>
                   THEN Get(entry.media_content[1][1].url, "")
                   ELSE ""
    IN  [source    |-> "Pinterest",
         board     |-> board_name,
         title     |-> Strip(Get(entry.title, <<>>)),
         img_url   |-> img_url,
         link      |-> Get(entry.link, ""),
         published |-> Get(entry.published, "today"),
         notes     |-> ""]

PinEntry0(e, m) ==
    [title |-> << <<" ", "t">> >>, link |-> <<"u1">>, published |-> <<"Mon">>,
     enclosures |-> e, media_content |-> m]

\* An entry with an enclosure, one whose media_content list is empty, and one
\* with none of the optional fields.
PinEntries ==
    {PinEntry0(<< <<[href |-> <<"i1">>]>> >>, << <<>> >>),
     PinEntry0(<<>>, << <<>> >>),
     [title |-> <<>>, link |-> <<>>, published |-> <<>>,
      enclosures |-> << <<>> >>, media_content |-> << <<[url |-> <<>>]>> >>]}

PinInit ==
    /\ PureIdle
    /\ GrIdle
    /\ ZenIdle
    /\ TbIdle
    /\ ppc = "start"
    /\ penv \in [sa_json : BOOLEAN, sheet_id : BOOLEAN]
    /\ psource \in [1..Len(BOARD_FEEDS) -> SeqsUpTo(PinEntries, MaxEntries)]
    /\ pboard = 1
    /\ pentries = <<>>
    /\ pi = 1
    /\ pnew_rows = <<>>
    /\ psheet = <<>>
    /\ prun = 1
    /\ pparses = 0
    /\ pclean = TRUE

\* Lines 26-35, run when the module is loaded: without GOOGLE_SA_JSON line
\* 28 raises; without a spreadsheet id open_by_key raises.
PinAuth ==
    /\ ppc = "start"
    /\ IF penv.sa_json /\ penv.sheet_id
       THEN ppc' = "parse" /\ UNCHANGED pclean
       ELSE ppc' = "crashed" /\ pclean' = FALSE
    /\ UNCHANGED <<penv, psource, pboard, pentries, pi, pnew_rows, psheet, prun,
                   pparses>>

\* Line 50: feedparser.parse returns the board's entries, or no entry when
\* the feed cannot be read (it does not raise).
PinParse ==
    /\ ppc = "parse"
    /\ \/ pentries' = psource[pboard] /\ UNCHANGED pclean
       \/ pentries' = <<>> /\ pclean' = FALSE
    /\ pparses' = pparses + 1
    /\ pi' = 1
    /\ ppc' = "loop"
    /\ UNCHANGED <<penv, psource, pboard, pnew_rows, psheet, prun>>

\* Lines 54-64: one pass of the loop body.  An exception is not caught: the
\* script ends there, before line 67.
PinEntry ==
    /\ ppc = "loop"
    /\ pi <= Len(pentries)
    /\ IF PinRaises(pentries[pi])
       THEN /\ ppc' = "crashed"
            /\ pclean' = FALSE
            /\ UNCHANGED <<pi, pnew_rows>>
       ELSE /\ pnew_rows' = Append(pnew_rows, PinRow(pentries[pi], BOARD_FEEDS[pboard]))
            /\ pi' = pi + 1
            /\ UNCHANGED <<ppc, pclean>>
    /\ UNCHANGED <<penv, psource, pboard, pentries, psheet, prun, pparses>>

\* Line 46: the entries of the board are done, the loop goes to the next board
\* or ends.
PinBoardDone ==
    /\ ppc = "loop"
    /\ pi > Len(pentries)
    /\ IF pboard < Len(BOARD_FEEDS)
       THEN pboard' = pboard + 1 /\ ppc' = "parse"
       ELSE ppc' = "append" /\ UNCHANGED pboard
    /\ UNCHANGED <<penv, psource, pentries, pi, pnew_rows, psheet, prun, pparses,
                   pclean>>

\* Lines 67-71, append_rows succeeds (or there is nothing to append).
PinAppendOk ==
    /\ ppc = "append"
    /\ psheet' = psheet \o pnew_rows
    /\ ppc' = "done"
    /\ UNCHANGED <<penv, psource, pboard, pentries, pi, pnew_rows, prun, pparses,
                   pclean>>

\* Line 68 raises after the store applied the first k rows.
PinAppendFail ==
    /\ ppc = "append"
    /\ pnew_rows # <<>>
    /\ \E k \in 0..Len(pnew_rows) : psheet' = psheet \o SubSeq(pnew_rows, 1, k)
    /\ pclean' = FALSE
    /\ ppc' = "crashed"
    /\ UNCHANGED <<penv, psource, pboard, pentries, pi, pnew_rows, prun, pparses>>

\* The scheduler starts the job again: a new process, the same worksheet, the
\* same source data.
PinRerun ==
    /\ ppc \in {"done", "crashed"}
    /\ prun < MaxRuns
    /\ prun' = prun + 1
    /\ pboard' = 1
    /\ pentries' = <<>>
    /\ pi' = 1
    /\ pnew_rows' = <<>>
    /\ pparses' = 0
    /\ ppc' = "start"
    /\ UNCHANGED <<penv, psource, psheet, pclean>>

PinNext ==
    \/ PinAuth /\ UNCHANGED <<pureVars, grVars, zenVars, tbVars>>
    \/ PinParse /\ UNCHANGED <<pureVars, grVars, zenVars, tbVars>>
    \/ PinEntry /\ UNCHANGED <<pureVars, grVars, zenVars, tbVars>>
    \/ PinBoardDone /\ UNCHANGED <<pureVars, grVars, zenVars, tbVars>>
    \/ PinAppendOk /\ UNCHANGED <<pureVars, grVars, zenVars, tbVars>>
    \/ PinAppendFail /\ UNCHANGED <<pureVars, grVars, zenVars, tbVars>>
    \/ PinRerun /\ UNCHANGED <<pureVars, grVars, zenVars, tbVars>>

SpecPinterest == PinInit /\ [][PinNext]_vars

\* append_row, lines 38-39: one row appended to the worksheet.
append_row(sheet, data) == Append(sheet, data)

\* How many data rows the worksheet holds at most when append_row is called.
MaxSheetRows == 2

\* The rows a caller hands to append_row.
AppendRowData ==
    {[source |-> "Pinterest", board |-> b, title |-> <<"t">>, img_url |-> "",
      link |-> l, published |-> "Mon", notes |-> ""] :
        b \in {BOARD_FEEDS[k] : k \in 1..Len(BOARD_FEEDS)}, l \in {"u1", "u9"}}

\* Lines 26-35 passed: the module is loaded and sheet is bound.
PinLoaded == ppc # "start" /\ penv.sa_json /\ penv.sheet_id

\* fetch_pinterest_boards never calls append_row; a program that has loaded
\* the module can, whenever fetch_pinterest_boards is not running: before it,
\* after it returned and after it raised. A call that raises leaves the
\* worksheet as it was or with the row in it.
CallAppendRow ==
    /\ PinLoaded
    /\ \/ ppc \in {"done", "crashed"}
       \/ ppc = "parse" /\ pboard = 1 /\ pparses = 0
    /\ Len(psheet) < MaxSheetRows
    /\ \E data \in AppendRowData : psheet' = append_row(psheet, data)
    /\ UNCHANGED <<ppc, penv, psource, pboard, pentries, pi, pnew_rows, prun,
                   pparses, pclean>>

PinModuleNext ==
    \/ PinNext
    \/ CallAppendRow /\ UNCHANGED <<pureVars, grVars, zenVars, tbVars>>

\* The module used as a library: the job's steps and calls of append_row.
SpecPinterestModule == PinInit /\ [][PinModuleNext]_vars

(***************************************************************************)
(* The four jobs, each run on its own by the scheduler                     *)
(***************************************************************************)
JobsInit == GrInit \/ ZenInit \/ TbInit \/ PinInit

JobsNext == GrNext \/ ZenNext \/ TbNext \/ PinNext

SpecJobs == JobsInit /\ [][JobsNext]_vars

(***************************************************************************)
(* Properties                                                              *)
(***************************************************************************)

\* C1: a job run a second time on unchanged source data, after a first run in
\* which nothing failed and against the store as that run left it, appends no
\* row.
C1_RerunAppendsNothing ==
    /\ (zpc = "done" /\ zrun >= 2 /\ zclean) => rows = <<>>
    /\ (tpc = "done" /\ trun >= 2 /\ tclean) => tnew_rows = <<>>
    /\ (ppc = "done" /\ prun >= 2 /\ pclean) => pnew_rows = <<>>

\* The dedup gate of the specification (4.5): a candidate is admitted when its
\* key is not known, and its key is known from then on.
RECURSIVE FilterNew(_, _)
FilterNew(candidates, known) ==
    IF candidates = <<>>
    THEN <<>>
    ELSE LET key == compute_key(Head(candidates).quote, Head(candidates).author)
         IN  IF key \in known
             THEN FilterNew(Tail(candidates), known)
             ELSE <<WithKey(Head(candidates))>>
                  \o FilterNew(Tail(candidates), known \cup {key})

\* C2: what dedupe admits is exactly the first occurrence of each key that is
\* not in the known set, in input order; no two admitted records share a key.
C2_FirstOccurrencesOnly ==
    (call.fn = "dedupe" /\ depth = 1) =>
        /\ ret = FilterNew(call.new_quotes, call.existing_keys)
        /\ \A i, j \in 1..Len(ret) : i # j => ret[i].dedupe_key # ret[j].dedupe_key

\* C3: a ZenQuotes row is written exactly when the measured length of its
\* normalised text lies within ZEN_MIN..ZEN_MAX, so every row of the CSV file
\* has a text of ZEN_MIN to ZEN_MAX characters.
C3_MeasuredLengthDecides ==
    /\ \A i \in 1..Len(csv) :
           ZEN_MIN <= Len(csv[i].quote) /\ Len(csv[i].quote) <= ZEN_MAX
    /\ zpc = "append" =>
           {rows[i].quote : i \in 1..Len(rows)} =
               {normalize_text(batch[i].q) : i \in
                   {k \in 1..Len(batch) :
                       /\ ZEN_MIN <= Len(normalize_text(batch[k].q))
                       /\ Len(normalize_text(batch[k].q)) <= ZEN_MAX}}

\* C4: normalising a second time changes nothing, for normalize_text and for
\* the Goodreads cleanup.
C4_NormalizationIdempotent ==
    (call.fn \in {"normalize_text", "CleanQuote"} /\ depth = 2) => ret = prev

\* C5 as claimed: in every job, a run without the credential or without the
\* spreadsheet id fetches nothing and produces no row.
C5_NoFetchWithoutCredentials ==
    /\ (gpc # "idle" /\ ~(genv.creds /\ genv.sheet_id)) =>
           fetchLog = <<>> /\ new_quotes = <<>> /\ Len(ws) = base
    /\ (tpc # "idle" /\ ~(tenv.sa_json /\ tenv.sheet_id)) =>
           tparses = 0 /\ tnew_rows = <<>> /\ tsheet \in TbInitialStores
    /\ (ppc # "idle" /\ ~(penv.sa_json /\ penv.sheet_id)) =>
           pparses = 0 /\ pnew_rows = <<>> /\ psheet = <<>>
    /\ (zpc # "idle" /\ ~(zenv.sa_json /\ zenv.sheet_id)) =>
           zfetches = 0 /\ rows = <<>> /\ csv = <<>> /\ zsheet = <<>>

\* C5 as amended: in the Goodreads, Tiny Buddha and Pinterest jobs a run
\* without the credential or without the spreadsheet id fetches nothing and
\* produces no row; the ZenQuotes job fetches and writes its CSV file all the
\* same, and only leaves the worksheet alone.
C5_NoFetchWithoutCredentialsButZen ==
    /\ (gpc # "idle" /\ ~(genv.creds /\ genv.sheet_id)) =>
           fetchLog = <<>> /\ new_quotes = <<>> /\ Len(ws) = base
    /\ (tpc # "idle" /\ ~(tenv.sa_json /\ tenv.sheet_id)) =>
           tparses = 0 /\ tnew_rows = <<>> /\ tsheet \in TbInitialStores
    /\ (ppc # "idle" /\ ~(penv.sa_json /\ penv.sheet_id)) =>
           pparses = 0 /\ pnew_rows = <<>> /\ psheet = <<>>
    /\ (zpc # "idle" /\ ~(zenv.sa_json /\ zenv.sheet_id)) =>
           /\ zsheet = <<>>
           /\ zpc \in {"append", "done"} =>
                  /\ zfetches = 1
                  /\ rows = ZenRows(batch)
                  /\ Len(csv) >= Len(rows)
                  /\ SubSeq(csv, Len(csv) - Len(rows) + 1, Len(csv)) = rows

\* A Tiny Buddha run without GOOGLE_SA_JSON has ended in line 20, before the
\* feed was parsed.
C5_Witness ==
    tpc = "crashed" /\ ~tenv.sa_json /\ tparses = 0 /\ tsource # <<>>

\* C6: one malformed entry does not stop the batch: when the feed was read and
\* the append did not fail, every entry of the feed that has a link is in the
\* worksheet at the end of the run (Tiny Buddha: unless its url was known),
\* and a Pinterest entry with an empty media_content list does not end the run.
C6_MalformedEntryIsolated ==
    /\ (/\ tpc \in {"done", "crashed"}
        /\ tparses = 1
        /\ ~(tpc = "crashed" /\ ti > Len(entries))) =>
           \A k \in 1..Len(entries) :
               entries[k].link # <<>> =>
                   \E r \in 1..Len(tsheet) : tsheet[r].url = entries[k].link[1]
    /\ (/\ ppc \in {"done", "crashed"}
        /\ pparses > 0
        /\ ~(ppc = "crashed" /\ pi > Len(pentries))) =>
           \A k \in 1..Len(pentries) :
               ~PinRaises(pentries[k]) =>
                   \E r \in 1..Len(psheet) :
                       psheet[r] = PinRow(pentries[k], BOARD_FEEDS[pboard])

\* The number of fetch_page calls made when the run is at (tag_i, page).
Position == (tag_i - 1) * MAX_PAGES + page

C7_Safety ==
    /\ gpc \in {"fetch", "write", "sleep", "done"} =>
           fetchLog = SubSeq(AllPairs, 1, Len(fetchLog))
    /\ gpc = "fetch" => Len(fetchLog) = Position - 1
    /\ gpc \in {"write", "sleep"} => Len(fetchLog) = Position
    /\ gpc = "done" => fetchLog = AllPairs
    /\ (gpc = "sleep" /\ new_quotes # <<>>) =>
           /\ Len(ws) >= Len(new_quotes)
           /\ SubSeq(ws, Len(ws) - Len(new_quotes) + 1, Len(ws)) = SheetRows(new_quotes)

\* C7: whichever fetches and appends fail, every (tag, page) is fetched exactly
\* once, in the order of the loops; the rows admitted on a page that did not
\* fail are in the worksheet; and a run that opened the worksheet reaches Done.
C7_PartialFailureIsolation ==
    /\ []C7_Safety
    /\ (gpc = "keys") ~> (gpc = "done")

\* The run is done, its last page failed, and rows were written before.
C7_Witness ==
    /\ gpc = "done"
    /\ fetchLog = AllPairs
    /\ pause = 0
    /\ Len(ws) > base
    /\ \E i \in 1..Len(ws) : ws[i].tag = RunTags[Len(RunTags)]

\* C8: before every fetch but the first, the run has slept SLEEP_TIME[0]
\* seconds since the fetch before.
C8_PauseBeforeEveryFetch ==
    (gpc = "fetch" /\ fetchLog # <<>>) => pause >= SLEEP_TIME[1]

\* C9: what dedupe admits on a page never has the key of a row that an earlier
\* page or tag of the same run wrote to the worksheet.
C9_WrittenEarlierIsDiscarded ==
    gpc = "write" =>
        \A i \in 1..Len(new_quotes) : \A j \in (base + 1)..Len(ws) :
            ws[j].dedupe_key # new_quotes[i].dedupe_key

\* C10: after each page, existing_keys holds the key of every row the run has
\* put into the worksheet.
C10_KnownCoversStore ==
    (gpc \in {"fetch", "done"} /\ fetchLog # <<>>) =>
        \A j \in (base + 1)..Len(ws) : ws[j].dedupe_key \in existing_keys

====
